---- MODULE Spec2Model ----
(***************************************************************************)
(* The supervised-worker IPC core of the XORNG VS Code extension:          *)
(* LocalOrchestrator (src/src/core/LocalOrchestrator.ts, the second,       *)
(* current copy of the class, lines 593-1314): supervisor, correlation     *)
(* registry and capability proxy, with the message guards and factories    *)
(* of src/src/ipc/types.ts.                                                *)
(*                                                                         *)
(* The host is a single-threaded event loop: every action below is one     *)
(* event callback (an API call made by the extension, an inbound IPC       *)
(* message, a timer, a child-process event) run to completion.  The        *)
(* continuation of `await this.stop()` in restart() is a microtask; it is  *)
(* kept in `micro` and runs before any other callback.                     *)
(***************************************************************************)
EXTENDS Integers, Sequences, FiniteSets, TLC

\* ------------------------------------------------------------------ bounds
MaxSpawn == 2        \* worker processes fork() can create
MaxStarts == 2       \* start() and restart() calls, lifecycle specification
MaxStops == 1        \* stop() calls that find a process (explicit or by timer)
MaxCalls == 2        \* sendRequest / sendStreamingRequest calls, registry specification
MaxMsgs == 3         \* chunks and responses the workers emit
MaxFrags == 2        \* fragments the backend yields for one invocation
MaxText == 2         \* fragments of the text the worker produces for one request

NoProc == 0        \* coreProcess = null
NoId == 0          \* a message without a requestId field
UnknownId == -1    \* a requestId that is the id of no request of the host

\* ------------------------------------------------------------------ state
VARIABLES
  coreProcess,      \* this.coreProcess: NoProc or the pid of the forked child
  isReady,          \* this.isReady
  pendingRequests,  \* key set of this.pendingRequests
  streamHandlers,   \* key set of this.streamHandlers
  messageCounter,   \* ipc/types.ts messageCounter
  calls,            \* request id -> the caller's view of one sendRequest promise
  starts,           \* the start()/restart() calls made so far, in call order
  stops,            \* the stop() calls that found a process, in call order
  micro,            \* microtask queue: indexes of restart() calls whose stop() resolved
  procState,        \* pid -> "none" | "failed" | "errored" | "alive" | "announced" | "exited"
  connected,        \* coreProcess.connected of the current child
  signals,          \* pid -> sequence of what stop() sent it
  inbox,            \* ids of the requests transmitted to the current child
  worker,           \* request id -> what the worker has emitted for it
  fromCore,         \* the child's IPC channel to the host, FIFO
  wcount,           \* messages emitted by workers so far
  dropped,          \* request ids for which a Response found no pending entry
  events,           \* pid -> the lifecycle events fired for it: "error", "exit"
  llm,              \* capability request id -> the handleLLM(Stream)Request call serving it
  toCore,           \* pid -> the messages the capability proxy wrote to that child's channel
  now,              \* Date.now() when the capability proxy last built a chunk, in ms from 0
  refused,          \* the kinds of call that threw 'Core is not running'
  localOrchestrator,\* XORNGOrchestrator.localOrchestrator: 0 (null) or an index of orchestrators
  orchestrators     \* the LocalOrchestrator instances startCore() has constructed

vars == <<coreProcess, isReady, pendingRequests, streamHandlers, messageCounter,
          calls, starts, stops, micro, procState, connected, signals,
          inbox, worker, fromCore, wcount, dropped, events, llm, toCore, now,
          refused, localOrchestrator, orchestrators>>

hostVars == <<coreProcess, isReady, pendingRequests, streamHandlers, messageCounter,
              calls, starts, stops, micro>>
procVars == <<procState, connected, signals, events>>
workerVars == <<inbox, worker, wcount>>
proxyVars == <<llm, toCore, now>>
facadeVars == <<localOrchestrator, orchestrators>>

Pids == 1..MaxSpawn

\* ------------------------------------------------------------------ messages
\* IPCMessage / IPCRequest / IPCResponse / ProcessStreamChunkMessage as the
\* fields the dispatch reads.  envelope: 'type', 'id' and 'timestamp' are present.
\* id is kept for the capability requests only, whose id the proxy answers to.
Message(type, envelope, hasPayload, requestId, success, content, error) ==
  [type |-> type, id |-> NoId, envelope |-> envelope, hasPayload |-> hasPayload,
   requestId |-> requestId, success |-> success, content |-> content, error |-> error]

\* IPCResponse.error: absent, or the code and message of a failure.
NoError == [code |-> "none", message |-> "none"]
WorkerError == [code |-> "WORKER_ERROR", message |-> "worker failed"]

CoreReadyMessage == Message("core:ready", TRUE, TRUE, NoId, FALSE, 0, NoError)
ProcessStreamChunkMessage(rid, k) ==
  Message("process:chunk", TRUE, TRUE, rid, FALSE, k, NoError)
ProcessResponseMessage(rid, ok, hasPayload, v) ==
  Message("process:response", TRUE, hasPayload, rid, ok, v,
          IF ok THEN NoError ELSE WorkerError)

\* A StreamChunk of another domain than 'process': the same fields as
\* ProcessStreamChunkMessage under the type '<domain>:chunk'.
DomainStreamChunkMessage(rid, k) ==
  Message("agents:chunk", TRUE, TRUE, rid, FALSE, k, NoError)

\* A Response that lacks one of 'type', 'id' and 'timestamp'.
MalformedMessage(rid) ==
  Message("process:response", FALSE, TRUE, rid, TRUE, rid, NoError)

\* A well-formed Response or chunk whose requestId the host never issued.
StrayMessage(type) == Message(type, TRUE, TRUE, UnknownId, TRUE, 0, NoError)

\* LLMRequestMessage / LLMStreamRequestMessage sent by the worker with id `id`.
LLMRequestMessage(id, stream) ==
  [Message(IF stream THEN "llm:stream" ELSE "llm:request", TRUE, TRUE, NoId, FALSE, 0, NoError)
     EXCEPT !.id = id]

\* A mutant of isIPCRequest: 'type', 'id' and 'timestamp' are not looked for.
isIPCRequestLax(msg) == msg.hasPayload

isIPCRequest(msg) == msg.envelope /\ msg.hasPayload
isLLMRequest(msg) == isIPCRequest(msg) /\ msg.type = "llm:request"
isLLMStreamRequest(msg) == isIPCRequest(msg) /\ msg.type = "llm:stream"

isRunning == coreProcess # NoProc /\ isReady

\* ------------------------------------------------------------------ records
\* One start() or restart() call.  result is what its promise resolved to;
\* procAtResolve / runningAtResolve record coreProcess and isRunning() at that moment;
\* timedOut is the process its readyTimeout callback called stop() on.
NewStart(origin, oldProc) ==
  [origin |-> origin, phase |-> "stopwait", spawned |-> NoProc, timer |-> "none",
   handler |-> FALSE, result |-> "none", oldProc |-> oldProc,
   procAtResolve |-> NoProc, runningAtResolve |-> FALSE, timedOut |-> NoProc]

\* resolve(value) of a start() promise: only the first call settles it.
ResolveStart(rec, value, proc, running) ==
  IF rec.result # "none" THEN rec
  ELSE [rec EXCEPT !.result = value, !.phase = "done",
                   !.procAtResolve = proc, !.runningAtResolve = running]

\* One stop() call that found a process.  restart: index in starts of the
\* restart() call awaiting it, or 0.  pendingAtCall / pendingAtResolve record
\* the registry when stop() was called and when its promise resolved.
NewStop(proc, restart) ==
  [proc |-> proc, forceKill |-> "armed", sigterm |-> "armed", resolved |-> FALSE,
   restart |-> restart, procAtResolve |-> NoProc, runningAtResolve |-> FALSE,
   pendingAtCall |-> pendingRequests, pendingAtResolve |-> {}]

\* A mutant of NewCall: the request is registered without a timeout.
NewCallNoTimer(stream) ==
  [stream |-> stream, timer |-> "none", outcome |-> "pending", respId |-> NoId,
   value |-> 0, settles |-> 0, chunks |-> <<>>, error |-> NoError, respError |-> NoError]

\* One sendRequest / sendStreamingRequest promise as its caller sees it.
\* error is what a failure Response rejected it with, respError the error field
\* of that Response.
NewCall(stream) ==
  [stream |-> stream, timer |-> "armed", outcome |-> "pending", respId |-> NoId,
   value |-> 0, settles |-> 0, chunks |-> <<>>, error |-> NoError, respError |-> NoError]

\* pending.resolve / pending.reject: a promise keeps its first settlement;
\* settles counts the invocations.
Settle(call, outcome, respId, value) ==
  IF call.outcome # "pending" THEN [call EXCEPT !.settles = @ + 1]
  ELSE [call EXCEPT !.outcome = outcome, !.respId = respId, !.value = value,
                    !.settles = @ + 1]

\* The child is a running process; "announced": it has sent its 'core:ready'.
Running(pid) == procState[pid] \in {"alive", "announced"}

SpawnCount == Cardinality({p \in Pids : procState[p] # "none"})

\* processToKill.kill(sig): delivered only to a child that is running.
Kill(sigs, pid, sig) ==
  IF Running(pid) THEN [sigs EXCEPT ![pid] = Append(@, sig)] ELSE sigs

\* ------------------------------------------------------------------ init
Init ==
  /\ coreProcess = NoProc
  /\ isReady = FALSE
  /\ pendingRequests = {}
  /\ streamHandlers = {}
  /\ messageCounter = 0
  /\ calls = <<>>
  /\ starts = <<>>
  /\ stops = <<>>
  /\ micro = <<>>
  /\ procState = [p \in Pids |-> "none"]
  /\ connected = FALSE
  /\ signals = [p \in Pids |-> <<>>]
  /\ inbox = {}
  /\ worker = <<>>
  /\ fromCore = <<>>
  /\ wcount = 0
  /\ dropped = {}
  /\ events = [p \in Pids |-> <<>>]
  /\ llm = <<>>
  /\ toCore = [p \in Pids |-> <<>>]
  /\ now = 0
  /\ refused = {}
  /\ localOrchestrator = 0
  /\ orchestrators = <<>>

\* ------------------------------------------------------------------ lifecycle
\* A mutant of AlreadyRunning: start() forks without looking at coreProcess.
AlreadyRunningNever == FALSE

\* The test of start() for returning true at once: if (this.coreProcess).
AlreadyRunning == coreProcess # NoProc

\* A mutant of CatchResult: the catch block of start() resolves nothing.
CatchResultNone == "none"

\* What the catch block of start() resolves the promise to: resolve(false).
CatchResult == "false"

\* start(): the body run for the call recorded at starts[i]; st is starts with
\* that record in place.  Sets coreProcess, procState, connected, inbox, fromCore, starts.
start(i, st) ==
  IF AlreadyRunning
  THEN /\ starts' = [st EXCEPT ![i] = ResolveStart(@, "true", coreProcess, isRunning)]
       /\ UNCHANGED <<coreProcess, procState, connected, inbox, fromCore>>
  ELSE \E outcome \in (IF SpawnCount < MaxSpawn THEN {"ok", "error", "throw"} ELSE {"throw"}) :
         IF outcome = "throw"
         THEN /\ starts' = [st EXCEPT ![i] = ResolveStart(@, CatchResult, NoProc, FALSE)]
              /\ UNCHANGED <<coreProcess, procState, connected, inbox, fromCore>>
         ELSE LET pid == SpawnCount + 1 IN
              /\ coreProcess' = pid
              /\ procState' = [procState EXCEPT ![pid] = IF outcome = "ok" THEN "alive" ELSE "failed"]
              /\ connected' = (outcome = "ok")
              /\ inbox' = {}
              /\ fromCore' = <<>>
              /\ starts' = [st EXCEPT ![i] = [@ EXCEPT !.phase = "waiting", !.spawned = pid,
                                                       !.timer = "armed", !.handler = TRUE]]

\* stop(): r is the index of the restart() call awaiting it, or 0.
\* Sets stops, micro, messageCounter, signals.
stop(r) ==
  IF coreProcess = NoProc
  THEN /\ micro' = IF r = 0 THEN micro ELSE Append(micro, r)
       /\ UNCHANGED <<stops, messageCounter, signals>>
  ELSE /\ stops' = Append(stops, NewStop(coreProcess, r))
       /\ messageCounter' = messageCounter + 1
       /\ signals' = IF connected
                     THEN [signals EXCEPT ![coreProcess] = Append(@, "core:shutdown")]
                     ELSE signals
       /\ UNCHANGED micro

\* stop() may be called only while the model has room for its record.
StopRoom == coreProcess = NoProc \/ Len(stops) < MaxStops

Start ==
  /\ micro = <<>>
  /\ start(Len(starts) + 1, Append(starts, NewStart("start", NoProc)))
  /\ UNCHANGED <<isReady, pendingRequests, streamHandlers, messageCounter, calls, stops,
                 micro, signals, worker, wcount, dropped, events, proxyVars, refused, facadeVars>>

Stop ==
  /\ micro = <<>>
  /\ coreProcess # NoProc
  /\ StopRoom
  /\ stop(0)
  /\ UNCHANGED <<coreProcess, isReady, pendingRequests, streamHandlers, calls, starts,
                 procState, connected, inbox, worker, fromCore, wcount, dropped, events, proxyVars, refused, facadeVars>>

\* restart(): await this.stop(); the start() runs when that promise resolves.
Restart ==
  /\ micro = <<>>
  /\ StopRoom
  /\ starts' = Append(starts, NewStart("restart", coreProcess))
  /\ stop(Len(starts) + 1)
  /\ UNCHANGED <<coreProcess, isReady, pendingRequests, streamHandlers, calls,
                 procState, connected, inbox, worker, fromCore, wcount, dropped, events, proxyVars, refused, facadeVars>>

\* The continuation of restart() after its stop() resolved: return this.start().
RestartContinue ==
  /\ micro # <<>>
  /\ start(Head(micro), starts)
  /\ micro' = Tail(micro)
  /\ UNCHANGED <<isReady, pendingRequests, streamHandlers, messageCounter, calls, stops,
                 signals, worker, wcount, dropped, events, proxyVars, refused, facadeVars>>

\* A mutant of HandleAfterError: the 'error' handler forgets the process handle.
HandleAfterErrorCleared == NoProc

\* this.coreProcess after the 'error' handler: the handler does not assign it.
HandleAfterError == coreProcess

\* coreProcess.on('error'): fires onCoreError and resolves the start() that
\* forked this child with false.  coreProcess and isReady are left as they are.
ErrorHandler(pid) ==
  /\ micro = <<>>
  /\ procState[pid] = "failed"
  /\ procState' = [procState EXCEPT ![pid] = "errored"]
  /\ coreProcess' = HandleAfterError
  /\ events' = [events EXCEPT ![pid] = Append(@, "error")]
  /\ starts' = [i \in DOMAIN starts |->
                  IF starts[i].spawned = pid
                  THEN ResolveStart(starts[i], "false", coreProcess, isRunning)
                  ELSE starts[i]]
  /\ UNCHANGED <<isReady, pendingRequests, streamHandlers, messageCounter,
                 calls, stops, micro, connected, signals, inbox, worker, fromCore,
                 wcount, dropped, proxyVars, refused, facadeVars>>

\* A mutant of RejectAllPending: the registry is cleared without rejecting.
RejectNonePending(cs) == cs

\* The rejection loop of the exit handler: every entry of pendingRequests has
\* its timer cleared and is rejected with 'Core process exited'.
RejectAllPending(cs) ==
  [id \in DOMAIN cs |->
     IF id \in pendingRequests
     THEN [Settle(cs[id], "exited", NoId, 0) EXCEPT !.timer = "cleared"]
     ELSE cs[id]]

\* A mutant of HandlersAfterExit: the rejection at exit leaves the stream handlers.
HandlersAfterExitKept == streamHandlers

\* The reject wrapper of sendStreamingRequest deletes the stream handler.
HandlersAfterExit == streamHandlers \ pendingRequests

\* A mutant of PendingAfterExit: the exit handler rejects and keeps the entries.
PendingAfterExitKept == pendingRequests

\* this.pendingRequests.clear() of the exit handler.
PendingAfterExit == {}

\* A mutant of ForceKillAfterExit: the exit listener of stop() leaves the timer.
ForceKillAfterExitKept(t) == t

\* clearTimeout(forceKillTimeout) in the once('exit') listener of stop().
ForceKillAfterExit(t) == IF t = "armed" THEN "cleared" ELSE t

\* coreProcess.on('exit') of start(), which fires onCoreExit, then the
\* once('exit') listeners of the stop() calls on this child, in registration order.
ExitHandler(pid) ==
  /\ micro = <<>>
  /\ Running(pid) \/ procState[pid] = "errored"
  /\ procState' = [procState EXCEPT ![pid] = "exited"]
  /\ connected' = FALSE
  /\ fromCore' = <<>>
  /\ isReady' = FALSE
  /\ coreProcess' = NoProc
  /\ events' = [events EXCEPT ![pid] = Append(@, "exit")]
  /\ calls' = RejectAllPending(calls)
  /\ streamHandlers' = HandlersAfterExit
  /\ pendingRequests' = PendingAfterExit
  /\ stops' = [k \in DOMAIN stops |->
                 IF stops[k].proc # pid THEN stops[k]
                 ELSE IF stops[k].resolved
                      THEN [stops[k] EXCEPT !.forceKill = ForceKillAfterExit(@)]
                      ELSE [stops[k] EXCEPT !.forceKill = ForceKillAfterExit(@),
                                            !.resolved = TRUE,
                                            !.procAtResolve = NoProc,
                                            !.runningAtResolve = FALSE,
                                            !.pendingAtResolve = {}]]
  /\ micro' = LET awaiting == SelectSeq(stops, LAMBDA r : r.proc = pid /\ ~r.resolved /\ r.restart # 0)
              IN  [k \in 1..Len(awaiting) |-> awaiting[k].restart]
  /\ UNCHANGED <<messageCounter, starts, signals, inbox, worker, wcount, dropped, proxyVars, refused, facadeVars>>

\* A mutant of NotReadyAtTimeout: the readyTimeout callback never acts.
NotReadyAtTimeoutNever == FALSE

\* The test of the readyTimeout callback: if (!this.isReady).
NotReadyAtTimeout == ~isReady

\* The readyTimeout callback of the start() call recorded at starts[i].
ReadyTimeout(i) ==
  /\ micro = <<>>
  /\ starts[i].timer = "armed"
  /\ IF NotReadyAtTimeout
     THEN /\ StopRoom
          /\ stop(0)
          /\ starts' = [starts EXCEPT ![i] =
                          [ResolveStart(@, "false", coreProcess, isRunning)
                             EXCEPT !.timer = "fired", !.timedOut = coreProcess]]
     ELSE /\ starts' = [starts EXCEPT ![i].timer = "fired"]
          /\ UNCHANGED <<stops, micro, messageCounter, signals>>
  /\ UNCHANGED <<coreProcess, isReady, pendingRequests, streamHandlers, calls,
                 procState, connected, inbox, worker, fromCore, wcount, dropped, events, proxyVars, refused, facadeVars>>

\* The one-second timer of stop(): processToKill.kill('SIGTERM').
SigtermTimer(k) ==
  /\ micro = <<>>
  /\ stops[k].sigterm = "armed"
  /\ stops' = [stops EXCEPT ![k].sigterm = "fired"]
  /\ signals' = Kill(signals, stops[k].proc, "SIGTERM")
  /\ UNCHANGED <<coreProcess, isReady, pendingRequests, streamHandlers, messageCounter,
                 calls, starts, micro, procState, connected, inbox, worker, fromCore,
                 wcount, dropped, events, proxyVars, refused, facadeVars>>

\* A mutant of ResolvedByForceKill: the force-kill callback kills and does not resolve.
KilledNotResolved(rec) == [rec EXCEPT !.forceKill = "fired"]

\* resolve() of the forceKillTimeout callback: the first settlement of stop().
ResolvedByForceKill(rec) ==
  IF rec.resolved THEN [rec EXCEPT !.forceKill = "fired"]
  ELSE [rec EXCEPT !.forceKill = "fired", !.resolved = TRUE,
                   !.procAtResolve = coreProcess,
                   !.runningAtResolve = isRunning,
                   !.pendingAtResolve = pendingRequests]

\* forceKillTimeout of stop(): kill('SIGKILL'), then resolve().  It is set
\* together with the one-second timer and for five seconds, so it runs after it.
ForceKillTimeout(k) ==
  /\ micro = <<>>
  /\ stops[k].forceKill = "armed"
  /\ stops[k].sigterm = "fired"
  /\ signals' = Kill(signals, stops[k].proc, "SIGKILL")
  /\ stops' = [stops EXCEPT ![k] = ResolvedByForceKill(@)]
  /\ micro' = IF ~stops[k].resolved /\ stops[k].restart # 0
              THEN Append(micro, stops[k].restart) ELSE micro
  /\ UNCHANGED <<coreProcess, isReady, pendingRequests, streamHandlers, messageCounter,
                 calls, starts, procState, connected, inbox, worker, fromCore,
                 wcount, dropped, events, proxyVars, refused, facadeVars>>

\* The IPC channel of the current child closes while the child still runs:
\* coreProcess.connected becomes false.  The host listens to no 'disconnect'
\* event; messages the child had already written are still delivered.
Disconnect ==
  /\ micro = <<>>
  /\ coreProcess # NoProc
  /\ Running(coreProcess)
  /\ connected
  /\ connected' = FALSE
  /\ UNCHANGED <<hostVars, procState, signals, events, workerVars, fromCore, dropped, proxyVars, refused, facadeVars>>

\* ------------------------------------------------------------------ requests
\* sendMessage(request): the request reaches the child only over a connected channel.
sendMessage(id) ==
  IF coreProcess # NoProc /\ connected
  THEN /\ inbox' = inbox \cup {id}
       /\ worker' = worker @@ (id :> [chunks |-> 0, first |-> "none", pre |-> 0])
  ELSE UNCHANGED <<inbox, worker>>

\* A mutant of NotRunning: the request functions never refuse a call.
NotRunningNever == FALSE

\* if (!this.isRunning()) throw new Error('Core is not running').
NotRunning == ~isRunning

\* sendRequest (stream = FALSE) and sendStreamingRequest (stream = TRUE).
\* Called while isRunning() is false they throw before anything is built.
SendRequest(stream) ==
  /\ micro = <<>>
  /\ IF NotRunning
     THEN /\ refused' = refused \cup {stream}
          /\ UNCHANGED <<messageCounter, calls, pendingRequests, streamHandlers,
                         inbox, worker>>
     ELSE /\ LET id == messageCounter + 1 IN
             /\ messageCounter' = id
             /\ calls' = calls @@ (id :> NewCall(stream))
             /\ pendingRequests' = pendingRequests \cup {id}
             /\ streamHandlers' = IF stream THEN streamHandlers \cup {id}
                                            ELSE streamHandlers
             /\ sendMessage(id)
          /\ UNCHANGED refused
  /\ UNCHANGED <<coreProcess, isReady, starts, stops, micro, procState, connected,
                 signals, fromCore, wcount, dropped, events, proxyVars, facadeVars>>

\* A mutant of PendingAfterTimeout: the timeout callback leaves the entry.
PendingAfterTimeoutKept(id) == pendingRequests

\* this.pendingRequests.delete(request.id) of the timeout callback.
PendingAfterTimeout(id) == pendingRequests \ {id}

\* The timeout callback of sendRequest / sendStreamingRequest for request id.
RequestTimeout(id) ==
  /\ micro = <<>>
  /\ calls[id].timer = "armed"
  /\ pendingRequests' = PendingAfterTimeout(id)
  /\ streamHandlers' = IF calls[id].stream THEN streamHandlers \ {id} ELSE streamHandlers
  /\ calls' = [calls EXCEPT ![id] = [Settle(@, "timeout", NoId, 0) EXCEPT !.timer = "fired"]]
  /\ UNCHANGED <<coreProcess, isReady, messageCounter, starts, stops, micro, procState,
                 connected, signals, inbox, worker, fromCore, wcount, dropped, events, proxyVars, refused, facadeVars>>

\* ------------------------------------------------------------------ dispatch
\* The 'core:ready' branch: isReady = true, then onCoreReadyEmitter.fire runs the
\* readyHandler of every start() call that still has one registered.
OnCoreReady ==
  /\ isReady' = TRUE
  /\ starts' = [i \in DOMAIN starts |->
                  IF starts[i].handler
                  THEN [ResolveStart(starts[i], "true", coreProcess, coreProcess # NoProc)
                          EXCEPT !.handler = FALSE,
                                 !.timer = IF @ = "armed" THEN "cleared" ELSE @]
                  ELSE starts[i]]
  /\ UNCHANGED <<pendingRequests, streamHandlers, calls, dropped, llm>>

\* The 'process:chunk' branch: the handler registered for chunk.requestId, if any.
OnChunk(msg) ==
  /\ calls' = IF msg.requestId \in streamHandlers
              THEN [calls EXCEPT ![msg.requestId].chunks = Append(@, msg.content)]
              ELSE calls
  /\ UNCHANGED <<isReady, starts, pendingRequests, streamHandlers, dropped, llm>>

\* A mutant of PendingFor: a Response settles the oldest pending entry.
PendingForOldest(msg) ==
  IF pendingRequests = {} THEN {}
  ELSE {CHOOSE x \in pendingRequests : \A y \in pendingRequests : x <= y}

\* The entry of pendingRequests a Response settles: pendingRequests.get(response.requestId).
PendingFor(msg) == IF msg.requestId \in pendingRequests THEN {msg.requestId} ELSE {}

\* A mutant of PendingAfterResponse: the settled entry is not deleted.
PendingAfterResponseKept(msg) == pendingRequests

\* What the Response branch leaves in pendingRequests.
PendingAfterResponse(msg) == pendingRequests \ {msg.requestId}

\* A mutant of HandlersAfterSettle: the resolve wrapper keeps the stream handler.
HandlersAfterSettleKept(id) == streamHandlers

\* The resolve / reject wrappers of sendStreamingRequest delete the stream handler.
HandlersAfterSettle(id) == IF calls[id].stream THEN streamHandlers \ {id} ELSE streamHandlers

\* new Error(response.error?.message || 'Request failed'): the Error object
\* has the message and no code.
RejectionError(msg) ==
  [code |-> "none",
   message |-> IF msg.error.message = "none" THEN "Request failed" ELSE msg.error.message]

\* A mutant of TimerAfterResponse: the Response branch leaves the timer running.
TimerAfterResponseKept(t) == t

\* clearTimeout(pending.timeout) of the Response branch.
TimerAfterResponse(t) == IF t = "armed" THEN "cleared" ELSE t

\* The "'requestId' in message" branch.
OnResponse(msg) ==
  /\ IF msg.requestId # NoId /\ PendingFor(msg) # {}
     THEN LET id == CHOOSE x \in PendingFor(msg) : TRUE IN
          /\ pendingRequests' = PendingAfterResponse(msg)
          /\ calls' = [calls EXCEPT ![id] =
                         [Settle(@, IF msg.success THEN "resolved" ELSE "failed",
                                 msg.requestId, msg.content)
                            EXCEPT !.timer = TimerAfterResponse(@),
                                   !.error = IF msg.success THEN @ ELSE RejectionError(msg),
                                   !.respError = IF msg.success THEN @ ELSE msg.error]]
          /\ streamHandlers' = HandlersAfterSettle(id)
          /\ UNCHANGED dropped
     ELSE /\ dropped' = IF msg.requestId # NoId THEN dropped \cup {msg.requestId} ELSE dropped
          /\ UNCHANGED <<pendingRequests, streamHandlers, calls>>
  /\ UNCHANGED <<isReady, starts, llm>>

\* processStream: the content values it has passed to the caller's onChunk,
\* concatenated.  The stream handler forwards the content of every chunk, and
\* once sendStreamingRequest resolved with a non-empty payload.content that
\* content is passed as well.  A text is the sequence of its fragments.
processStream(call) ==
  call.chunks \o (IF call.outcome = "resolved" /\ call.value # <<>>
                  THEN call.value ELSE <<>>)

\* ------------------------------------------------------------------ capability proxy
\* One handleLLMRequest / handleLLMStreamRequest call.  phase is the await it
\* is suspended at: "select" (selectChatModels), "invoke" (model.sendRequest),
\* "stream" (the for-await over response.text), or "done".  frags are the
\* fragments the backend has yielded, content the handler's accumulator, sent
\* the messages it has passed to sendMessage, proc the child that asked;
\* backend is how the backend served the call: "ok", "none" (no model) or
\* "failed" (an await threw).  avail are the candidate selectors that matched a
\* backend when the handler selected (left empty when the selection threw),
\* selector the one whose backend the handler took, logged the selector its
\* 'Using model' log line names, ids the 'id' fields of the messages in sent.
NewProxy(stream) ==
  [stream |-> stream, phase |-> "select", frags |-> <<>>, content |-> <<>>,
   sent |-> <<>>, proc |-> coreProcess, backend |-> "pending",
   avail |-> {}, selector |-> "none", logged |-> "none", ids |-> <<>>]

\* `res_${++messageCounter}_${Date.now()}` of createIPCResponse: the prefix and
\* the counter; the time suffix can only tell more ids apart.
ResponseId == <<"res", messageCounter + 1>>

\* `chunk_${Date.now()}` of the chunk built at clock value t.
ChunkId(t) == <<"chunk", t>>

\* The selectors handleLLMRequest tries, in order: the configured family, the
\* common families, any model of the vendor, any model at all.
Candidates == <<"preferred", "family", "vendor", "any">>

\* What the selectors can match together: a model of a family is a model of
\* the vendor, and a model of the vendor is a model.
Availability ==
  {{}, {"any"}, {"vendor", "any"}, {"family", "vendor", "any"},
   {"preferred", "vendor", "any"}, {"preferred", "family", "vendor", "any"}}

AllCandidates == {Candidates[n] : n \in DOMAIN Candidates}

\* The selectors a handler passes to selectChatModels: handleLLMRequest walks
\* the candidates, handleLLMStreamRequest builds one selector and tries it.
Chain(stream) == IF stream THEN <<"preferred">> ELSE Candidates

\* models[0] of the first selector of chain that matches, or "none".
RECURSIVE SelectedFrom(_, _)
SelectedFrom(chain, avail) ==
  IF chain = <<>> THEN "none"
  ELSE IF Head(chain) \in avail THEN Head(chain)
  ELSE SelectedFrom(Tail(chain), avail)

\* this.log(`Using model: ...`): written by handleLLMRequest only.
UsedLog(stream, selector) == IF stream THEN "none" ELSE selector

\* The 'llm:chunk' message built in the loop of handleLLMStreamRequest.
LLMStreamChunkMessage(rid, frag) ==
  [type |-> "llm:chunk", requestId |-> rid, success |-> FALSE, content |-> <<frag>>,
   done |-> FALSE, code |-> "none"]

\* createIPCResponse('llm:response', requestId, success, payload, error).
LLMResponseMessage(rid, ok, content, code) ==
  [type |-> "llm:response", requestId |-> rid, success |-> ok, content |-> content,
   done |-> FALSE, code |-> code]

\* The isLLMRequest / isLLMStreamRequest branches: the handler starts and
\* suspends at its first await.
OnLLMRequest(msg) ==
  /\ llm' = IF msg.id \in DOMAIN llm THEN llm
            ELSE llm @@ (msg.id :> NewProxy(isLLMStreamRequest(msg)))
  /\ UNCHANGED <<isReady, starts, pendingRequests, streamHandlers, calls, dropped>>

\* The handler for request rid, left as rec, calls sendMessage for each of
\* msgs, nresp of them built by createIPCResponse.  Sets llm, toCore, messageCounter.
ProxySend(rid, rec, msgs, nresp) ==
  /\ llm' = [llm EXCEPT ![rid] =
               [rec EXCEPT !.sent = @ \o msgs,
                           !.ids = @ \o [n \in DOMAIN msgs |->
                                           IF msgs[n].type = "llm:chunk" THEN ChunkId(now')
                                           ELSE ResponseId]]]
  /\ toCore' = IF coreProcess # NoProc /\ connected
               THEN [toCore EXCEPT ![coreProcess] = @ \o msgs]
               ELSE toCore
  /\ messageCounter' = messageCounter + nresp

\* A mutant of CatchResponse: the failure Response carries no error code.
CatchResponseNoCode(rid) == LLMResponseMessage(rid, FALSE, <<>>, "none")

\* The Response sent from the catch block of either handler.
CatchResponse(rid) == LLMResponseMessage(rid, FALSE, <<>>, "LLM_ERROR")

\* The Response sent when no model was selected.
NoModelResponse(rid) == LLMResponseMessage(rid, FALSE, <<>>, "NO_MODEL")

\* A mutant of Accumulate: the accumulator keeps the last fragment only.
AccumulateLast(content, frag) == <<frag>>

\* content += chunk.
Accumulate(content, frag) == Append(content, frag)

\* A mutant of ChunksFor: the streaming handler relays no fragment.
ChunksForNone(stream, rid, frag) == <<>>

\* What the loop body sends for one fragment: handleLLMStreamRequest relays it
\* as an 'llm:chunk', handleLLMRequest sends nothing.
ChunksFor(stream, rid, frag) ==
  IF stream THEN <<LLMStreamChunkMessage(rid, frag)>> ELSE <<>>

\* The selectChatModels awaits of a handler resume: one of them threw, or they
\* returned what avail matches and the handler took the first match of its
\* chain, or found none.
ProxySelect(rid, avail, throws) ==
  /\ micro = <<>>
  /\ llm[rid].phase = "select"
  /\ LET selector == SelectedFrom(Chain(llm[rid].stream), avail) IN
     IF throws
     THEN ProxySend(rid, [llm[rid] EXCEPT !.phase = "done", !.backend = "failed"],
                    <<CatchResponse(rid)>>, 1)
     ELSE IF selector = "none"
     THEN ProxySend(rid, [llm[rid] EXCEPT !.phase = "done", !.backend = "none",
                                          !.avail = avail],
                    <<NoModelResponse(rid)>>, 1)
     ELSE /\ llm' = [llm EXCEPT ![rid] =
                       [@ EXCEPT !.phase = "invoke", !.avail = avail,
                                 !.selector = selector,
                                 !.logged = UsedLog(llm[rid].stream, selector)]]
          /\ UNCHANGED <<toCore, messageCounter>>
  /\ UNCHANGED now
  /\ UNCHANGED <<coreProcess, isReady, pendingRequests, streamHandlers, calls, starts,
                 stops, micro, procVars, workerVars, fromCore, dropped,
                 refused, facadeVars>>

\* await model.sendRequest resumes: with a response to iterate, or it threw.
ProxyInvoke(rid, ok) ==
  /\ micro = <<>>
  /\ llm[rid].phase = "invoke"
  /\ IF ok
     THEN /\ llm' = [llm EXCEPT ![rid].phase = "stream"]
          /\ UNCHANGED <<toCore, messageCounter>>
     ELSE ProxySend(rid, [llm[rid] EXCEPT !.phase = "done", !.backend = "failed"],
                    <<CatchResponse(rid)>>, 1)
  /\ UNCHANGED now
  /\ UNCHANGED <<coreProcess, isReady, pendingRequests, streamHandlers, calls, starts,
                 stops, micro, procVars, workerVars, fromCore, dropped,
                 refused, facadeVars>>

\* The backend yields its next fragment; the k-th fragment is k.  tick is
\* the time in ms since the proxy last built a chunk; handleLLMRequest does
\* not read the clock.
ProxyFragment(rid, tick) ==
  /\ micro = <<>>
  /\ llm[rid].phase = "stream"
  /\ Len(llm[rid].frags) < MaxFrags
  /\ now' = IF llm[rid].stream THEN now + tick ELSE now
  /\ LET frag == Len(llm[rid].frags) + 1 IN
     ProxySend(rid, [llm[rid] EXCEPT !.frags = Append(@, frag),
                                     !.content = Accumulate(@, frag)],
               ChunksFor(llm[rid].stream, rid, frag), 0)
  /\ UNCHANGED <<coreProcess, isReady, pendingRequests, streamHandlers, calls, starts,
                 stops, micro, procVars, workerVars, fromCore, dropped,
                 refused, facadeVars>>

\* The iteration over response.text ends: normally, or by throwing.
ProxyEnd(rid, ok) ==
  /\ micro = <<>>
  /\ llm[rid].phase = "stream"
  /\ ProxySend(rid, [llm[rid] EXCEPT !.phase = "done",
                                     !.backend = IF ok THEN "ok" ELSE "failed"],
               <<IF ok THEN LLMResponseMessage(rid, TRUE, llm[rid].content, "none")
                       ELSE CatchResponse(rid)>>, 1)
  /\ UNCHANGED now
  /\ UNCHANGED <<coreProcess, isReady, pendingRequests, streamHandlers, calls, starts,
                 stops, micro, procVars, workerVars, fromCore, dropped,
                 refused, facadeVars>>

\* A mutant of handleMessage: every inbound message counts as the handshake.
handleAnyAsReady(msg) == OnCoreReady

\* handleMessage(msg).  Sets isReady, starts, pendingRequests, streamHandlers,
\* calls, dropped, llm.
handleMessage(msg) ==
  IF ~isIPCRequest(msg)
  THEN UNCHANGED <<isReady, starts, pendingRequests, streamHandlers, calls, dropped, llm>>
  ELSE IF msg.type = "core:ready" THEN OnCoreReady
  ELSE IF isLLMRequest(msg) \/ isLLMStreamRequest(msg) THEN OnLLMRequest(msg)
  ELSE IF msg.type = "process:chunk" THEN OnChunk(msg)
  ELSE OnResponse(msg)

\* coreProcess.on('message'): the next message of the channel is dispatched.
MessageEvent ==
  /\ micro = <<>>
  /\ fromCore # <<>>
  /\ handleMessage(Head(fromCore))
  /\ fromCore' = Tail(fromCore)
  /\ UNCHANGED <<coreProcess, messageCounter, stops, micro, procState, connected,
                 signals, inbox, worker, wcount, events, toCore, now, refused, facadeVars>>

\* ------------------------------------------------------------------ worker
\* The child process: it may announce readiness, stream chunks and answer any
\* request it has received, in any order and more than once.
WorkerCanSend ==
  /\ micro = <<>>
  /\ coreProcess # NoProc
  /\ Running(coreProcess)
  /\ connected

WorkerSend(msg) ==
  /\ wcount < MaxMsgs
  /\ fromCore' = Append(fromCore, msg)
  /\ wcount' = wcount + 1

\* The readiness handshake, sent once by each child.
WorkerReady ==
  /\ WorkerCanSend
  /\ procState[coreProcess] = "alive"
  /\ procState' = [procState EXCEPT ![coreProcess] = "announced"]
  /\ fromCore' = Append(fromCore, CoreReadyMessage)
  /\ UNCHANGED <<hostVars, connected, signals, inbox, worker, wcount, dropped, events, proxyVars, refused, facadeVars>>

\* The k-th chunk the worker emits for a request carries content k.
WorkerChunk(rid) ==
  /\ WorkerCanSend
  /\ rid \in inbox
  /\ WorkerSend(ProcessStreamChunkMessage(rid, worker[rid].chunks + 1))
  /\ worker' = [worker EXCEPT ![rid].chunks = @ + 1]
  /\ UNCHANGED <<hostVars, procVars, inbox, dropped, proxyVars, refused, facadeVars>>

\* A Response echoes the id of its request as payload content; a failure
\* Response carries an error and may or may not carry a payload field.
WorkerRespond(rid, ok, hasPayload) ==
  /\ WorkerCanSend
  /\ rid \in inbox
  /\ ok => hasPayload
  /\ WorkerSend(ProcessResponseMessage(rid, ok, hasPayload, rid))
  /\ worker' = IF worker[rid].first # "none" THEN worker
               ELSE [worker EXCEPT ![rid].first = IF ok THEN "ok" ELSE "fail",
                                   ![rid].pre = worker[rid].chunks]
  /\ UNCHANGED <<hostVars, procVars, inbox, dropped, proxyVars, refused, facadeVars>>

\* The text the worker produces for a request, as the sequence of its
\* fragments; chunk k of a request carries fragment k.
FullText == [k \in 1..MaxText |-> k]

\* ProcessResponseMessage of a streamed request: payload.content is the full text.
WorkerFullResponse(rid) ==
  /\ WorkerCanSend
  /\ rid \in inbox
  /\ WorkerSend(ProcessResponseMessage(rid, TRUE, TRUE, FullText))
  /\ worker' = IF worker[rid].first # "none" THEN worker
               ELSE [worker EXCEPT ![rid].first = "ok", ![rid].pre = worker[rid].chunks]
  /\ UNCHANGED <<hostVars, procVars, inbox, dropped, proxyVars, refused, facadeVars>>

\* A chunk of another domain, numbered like the 'process:chunk' ones.
WorkerDomainChunk(rid) ==
  /\ WorkerCanSend
  /\ rid \in inbox
  /\ WorkerSend(DomainStreamChunkMessage(rid, worker[rid].chunks + 1))
  /\ worker' = [worker EXCEPT ![rid].chunks = @ + 1]
  /\ UNCHANGED <<hostVars, procVars, inbox, dropped, proxyVars, refused, facadeVars>>

\* The worker answers a request with a message that is not a valid envelope.
WorkerMalformed(rid) ==
  /\ WorkerCanSend
  /\ rid \in inbox
  /\ WorkerSend(MalformedMessage(rid))
  /\ worker' = IF worker[rid].first # "none" THEN worker
               ELSE [worker EXCEPT ![rid].first = "malformed", ![rid].pre = worker[rid].chunks]
  /\ UNCHANGED <<hostVars, procVars, inbox, dropped, proxyVars, refused, facadeVars>>

\* The worker sends a Response or a chunk for a request id it never received.
WorkerStray(type) ==
  /\ WorkerCanSend
  /\ WorkerSend(StrayMessage(type))
  /\ UNCHANGED <<hostVars, procVars, inbox, worker, dropped, proxyVars, refused, facadeVars>>

\* The worker asks the host for a model invocation; its requests have the ids 1, 2, ...
WorkerLLM(stream) ==
  /\ WorkerCanSend
  /\ WorkerSend(LLMRequestMessage(wcount + 1, stream))
  /\ UNCHANGED <<hostVars, procVars, inbox, worker, dropped, proxyVars, refused, facadeVars>>

\* ------------------------------------------------------------------ facade
\* XORNGOrchestrator keeps one LocalOrchestrator field and constructs a new
\* instance in startCore().  Each instance is the supervisor above, reduced to
\* what startCore() and start() read and to its own child: coreProcess (the
\* handle is set), isReady, child (the state of the process it forked, as in
\* procState; "announced" with isReady false is a handshake in flight), timer
\* (its readyTimeout), stopping (stop() was called on it) and started (what its
\* start() promise resolved to).  The core path is set.
NewOrchestrator ==
  [coreProcess |-> FALSE, isReady |-> FALSE, child |-> "none", timer |-> "none",
   stopping |-> FALSE, started |-> "none"]

\* start() on a new instance: coreProcess is null, so it forks.
Forked(outcome) ==
  IF outcome = "throw" THEN [NewOrchestrator EXCEPT !.started = "false"]
  ELSE [NewOrchestrator EXCEPT !.coreProcess = TRUE, !.timer = "armed",
                               !.child = IF outcome = "ok" THEN "alive" ELSE "failed"]

\* this.localOrchestrator?.isRunning()
CurrentIsRunning ==
  /\ localOrchestrator # 0
  /\ orchestrators[localOrchestrator].coreProcess
  /\ orchestrators[localOrchestrator].isReady

\* startCore() when it does not return true at once: a new LocalOrchestrator
\* replaces the field and is started.
StartCore ==
  /\ ~CurrentIsRunning
  /\ Len(orchestrators) < MaxSpawn
  /\ \E outcome \in {"ok", "error", "throw"} :
       orchestrators' = Append(orchestrators, Forked(outcome))
  /\ localOrchestrator' = Len(orchestrators) + 1
  /\ UNCHANGED <<hostVars, procVars, workerVars, fromCore, dropped, proxyVars, refused>>

\* stopCore(): stop() on the current instance, which acts when it holds a handle.
StopCore ==
  /\ localOrchestrator # 0
  /\ orchestrators[localOrchestrator].coreProcess
  /\ ~orchestrators[localOrchestrator].stopping
  /\ orchestrators' = [orchestrators EXCEPT ![localOrchestrator].stopping = TRUE]
  /\ UNCHANGED <<localOrchestrator, hostVars, procVars, workerVars, fromCore, dropped,
                 proxyVars, refused>>

\* The child of instance n sends its 'core:ready'.
CoreAnnounces(n) ==
  /\ orchestrators[n].child = "alive"
  /\ orchestrators' = [orchestrators EXCEPT ![n].child = "announced"]
  /\ UNCHANGED <<localOrchestrator, hostVars, procVars, workerVars, fromCore, dropped,
                 proxyVars, refused>>

\* Instance n dispatches the 'core:ready' of its child: isReady = true, and its
\* readyHandler clears the timer and resolves start() with true.
CoreReadyHandled(n) ==
  /\ orchestrators[n].child = "announced"
  /\ ~orchestrators[n].isReady
  /\ orchestrators' = [orchestrators EXCEPT
                         ![n].isReady = TRUE,
                         ![n].timer = IF @ = "armed" THEN "cleared" ELSE @,
                         ![n].started = IF @ = "none" THEN "true" ELSE @]
  /\ UNCHANGED <<localOrchestrator, hostVars, procVars, workerVars, fromCore, dropped,
                 proxyVars, refused>>

\* The 'error' handler of instance n: start() resolves false, the handle stays.
CoreErrorHandled(n) ==
  /\ orchestrators[n].child = "failed"
  /\ orchestrators' = [orchestrators EXCEPT
                         ![n].child = "errored",
                         ![n].started = IF @ = "none" THEN "false" ELSE @]
  /\ UNCHANGED <<localOrchestrator, hostVars, procVars, workerVars, fromCore, dropped,
                 proxyVars, refused>>

\* The 'exit' handler of instance n.
CoreExitHandled(n) ==
  /\ orchestrators[n].child \in {"alive", "announced", "errored"}
  /\ orchestrators' = [orchestrators EXCEPT
                         ![n].child = "exited", ![n].isReady = FALSE,
                         ![n].coreProcess = FALSE]
  /\ UNCHANGED <<localOrchestrator, hostVars, procVars, workerVars, fromCore, dropped,
                 proxyVars, refused>>

\* The readyTimeout callback of instance n: stop() and resolve(false) when the
\* instance is not ready.
CoreReadyTimeout(n) ==
  /\ orchestrators[n].timer = "armed"
  /\ orchestrators' = [orchestrators EXCEPT ![n] =
                         IF @.isReady THEN [@ EXCEPT !.timer = "fired"]
                         ELSE [@ EXCEPT !.timer = "fired",
                                        !.stopping = @ \/ orchestrators[n].coreProcess,
                                        !.started = IF @ = "none" THEN "false" ELSE @]]
  /\ UNCHANGED <<localOrchestrator, hostVars, procVars, workerVars, fromCore, dropped,
                 proxyVars, refused>>

\* ------------------------------------------------------------------ spec
\* The calls the extension makes and the events of the environment.  The
\* registry specification exercises the correlation registry over one worker;
\* the lifecycle specification exercises start/stop/restart over several, with
\* one request.
NextRegistry ==
  \/ (starts = <<>> /\ Start)
  \/ \E pid \in Pids : ErrorHandler(pid)
  \/ \E pid \in Pids : ExitHandler(pid)
  \/ \E stream \in BOOLEAN :
       (isRunning /\ Cardinality(DOMAIN calls) < MaxCalls /\ SendRequest(stream))
  \/ \E id \in DOMAIN calls : RequestTimeout(id)
  \/ MessageEvent
  \/ WorkerReady
  \/ \E rid \in inbox : WorkerChunk(rid)
  \/ \E rid \in inbox, ok \in BOOLEAN, hasPayload \in BOOLEAN : WorkerRespond(rid, ok, hasPayload)

SpecRegistry == Init /\ [][NextRegistry]_vars

NextLifecycle ==
  \/ (Len(starts) < MaxStarts /\ Start)
  \/ Stop
  \/ (Len(starts) < MaxStarts /\ Restart)
  \/ RestartContinue
  \/ \E pid \in Pids : ErrorHandler(pid)
  \/ \E pid \in Pids : ExitHandler(pid)
  \/ \E i \in DOMAIN starts : ReadyTimeout(i)
  \/ \E k \in DOMAIN stops : SigtermTimer(k)
  \/ \E k \in DOMAIN stops : ForceKillTimeout(k)
  \/ (isRunning /\ calls = <<>> /\ SendRequest(FALSE))
  \/ \E id \in DOMAIN calls : RequestTimeout(id)
  \/ MessageEvent
  \/ WorkerReady

SpecLifecycle == Init /\ [][NextLifecycle]_vars

\* The supervisor under the scheduling the event loop and the operating system
\* guarantee: start() and restart() calls in any order, stop() being called by
\* restart() and by the readiness timers.  Every stop() call made by a
\* readyTimeout callback must find room for its record, so API calls are made
\* only while the records already made, the armed readiness timers and the
\* restart() calls still awaiting their stop() leave room for them.
StopsReserved ==
  Len(stops)
  + Cardinality({i \in DOMAIN starts : starts[i].timer = "armed"})
  + Cardinality({i \in DOMAIN starts : starts[i].phase = "stopwait"})

NextFair ==
  \/ (Len(starts) < MaxStarts /\ (AlreadyRunning \/ StopsReserved < MaxStops) /\ Start)
  \/ (/\ Len(starts) < MaxStarts
      /\ StopsReserved + (IF coreProcess = NoProc THEN 0 ELSE 1) < MaxStops
      /\ Restart)
  \/ RestartContinue
  \/ \E pid \in Pids : ErrorHandler(pid)
  \/ \E pid \in Pids : ExitHandler(pid)
  \/ \E i \in DOMAIN starts : ReadyTimeout(i)
  \/ \E k \in DOMAIN stops : SigtermTimer(k)
  \/ \E k \in DOMAIN stops : ForceKillTimeout(k)
  \/ MessageEvent
  \/ WorkerReady

\* A child that was sent SIGKILL.
Killed(pid) == \E n \in DOMAIN signals[pid] : signals[pid][n] = "SIGKILL"

\* Microtasks and due timers run, a failed fork() emits its 'error' event, and
\* a child that was sent SIGKILL terminates and its 'exit' event is delivered.
Fairness ==
  /\ WF_vars(RestartContinue)
  /\ WF_vars(\E pid \in Pids : ErrorHandler(pid))
  /\ WF_vars(\E i \in DOMAIN starts : ReadyTimeout(i))
  /\ WF_vars(\E k \in DOMAIN stops : SigtermTimer(k))
  /\ WF_vars(\E k \in DOMAIN stops : ForceKillTimeout(k))
  /\ WF_vars(\E pid \in Pids : Killed(pid) /\ ExitHandler(pid))

SpecFair == Init /\ [][NextFair]_vars /\ Fairness

\* The registry under the scheduling of the event loop: one worker that answers
\* each request at most once, or not at all, and may exit; due timers run.
\* Requests are made at any time, also while the core is not running; the
\* other specifications make them only while isRunning() holds.
NextCalls ==
  \/ (starts = <<>> /\ Start)
  \/ \E pid \in Pids : ExitHandler(pid)
  \/ \E stream \in BOOLEAN : (Cardinality(DOMAIN calls) < MaxCalls /\ SendRequest(stream))
  \/ \E id \in DOMAIN calls : RequestTimeout(id)
  \/ MessageEvent
  \/ WorkerReady
  \/ \E rid \in inbox, ok \in BOOLEAN, hasPayload \in BOOLEAN :
       (worker[rid].first = "none" /\ WorkerRespond(rid, ok, hasPayload))

SpecCalls ==
  Init /\ [][NextCalls]_vars /\ WF_vars(\E id \in DOMAIN calls : RequestTimeout(id))

\* The dispatch against a worker that does not keep to the protocol, serving
\* one plain and one streaming call: a chunk of either domain per call, messages
\* that are not envelopes, Responses and chunks for ids the host never issued,
\* answers after a malformed one, and a channel that may close before the
\* worker exits.
NextDispatch ==
  \/ (starts = <<>> /\ Start)
  \/ \E pid \in Pids : ExitHandler(pid)
  \/ Disconnect
  \/ \E stream \in BOOLEAN :
       (/\ Cardinality(DOMAIN calls) < MaxCalls
        /\ \A id \in DOMAIN calls : calls[id].stream # stream
        /\ isRunning
        /\ SendRequest(stream))
  \/ \E id \in DOMAIN calls : RequestTimeout(id)
  \/ MessageEvent
  \/ WorkerReady
  \/ \E rid \in inbox : (worker[rid].chunks = 0 /\ WorkerChunk(rid))
  \/ \E rid \in inbox : (worker[rid].chunks = 0 /\ WorkerDomainChunk(rid))
  \/ \E rid \in inbox : (worker[rid].first = "none" /\ WorkerMalformed(rid))
  \/ \E type \in {"process:response", "process:chunk"} : WorkerStray(type)
  \/ \E rid \in inbox, ok \in BOOLEAN, hasPayload \in BOOLEAN :
       (worker[rid].first \in {"none", "malformed"} /\ WorkerRespond(rid, ok, hasPayload))

SpecDispatch == Init /\ [][NextDispatch]_vars

\* No capability request of this kind has been made yet.
FirstOfKind(stream) ==
  /\ \A rid \in DOMAIN llm : llm[rid].stream # stream
  /\ \A n \in DOMAIN fromCore :
       fromCore[n].type # (IF stream THEN "llm:stream" ELSE "llm:request")

\* The capability proxy: workers that make one capability request of each
\* kind, concurrently, and may exit and be replaced while the host serves
\* them, and a backend that may have no model, fail at any await, or yield
\* fragments.  Here every selector matches or none does and the clock
\* advances between fragments; the backend specification varies both.
NextProxy ==
  \/ (Len(starts) < MaxStarts /\ Start)
  \/ \E pid \in Pids : ExitHandler(pid)
  \/ \E stream \in BOOLEAN : (FirstOfKind(stream) /\ WorkerLLM(stream))
  \/ MessageEvent
  \/ \E rid \in DOMAIN llm, avail \in {{}, AllCandidates}, throws \in BOOLEAN :
       ProxySelect(rid, avail, throws)
  \/ \E rid \in DOMAIN llm, ok \in BOOLEAN : ProxyInvoke(rid, ok)
  \/ \E rid \in DOMAIN llm : ProxyFragment(rid, 1)
  \/ \E rid \in DOMAIN llm, ok \in BOOLEAN : ProxyEnd(rid, ok)

SpecProxy == Init /\ [][NextProxy]_vars

\* The capability proxy against every behaviour of the backend: one worker
\* that makes one capability request of each kind and stays, and a backend
\* whose selectors match in every possible combination and that may yield
\* several fragments within one millisecond.
NextBackend ==
  \/ (starts = <<>> /\ Start)
  \/ \E stream \in BOOLEAN : (FirstOfKind(stream) /\ WorkerLLM(stream))
  \/ MessageEvent
  \/ \E rid \in DOMAIN llm, avail \in Availability, throws \in BOOLEAN :
       ProxySelect(rid, avail, throws)
  \/ \E rid \in DOMAIN llm, ok \in BOOLEAN : ProxyInvoke(rid, ok)
  \/ \E rid \in DOMAIN llm, tick \in {0, 1} : ProxyFragment(rid, tick)
  \/ \E rid \in DOMAIN llm, ok \in BOOLEAN : ProxyEnd(rid, ok)

SpecBackend == Init /\ [][NextBackend]_vars

\* processStream against a worker that streams the fragments of its text as
\* chunks, in order, and answers with the full text, after any number of them;
\* the worker may exit and a call may time out.
NextStream ==
  \/ (starts = <<>> /\ Start)
  \/ \E pid \in Pids : ExitHandler(pid)
  \/ (isRunning /\ Cardinality(DOMAIN calls) < MaxCalls /\ SendRequest(TRUE))
  \/ \E id \in DOMAIN calls : RequestTimeout(id)
  \/ MessageEvent
  \/ WorkerReady
  \/ \E rid \in inbox :
       (worker[rid].chunks < MaxText /\ worker[rid].first = "none" /\ WorkerChunk(rid))
  \/ \E rid \in inbox : (worker[rid].first = "none" /\ WorkerFullResponse(rid))

SpecStream == Init /\ [][NextStream]_vars

\* The facade: startCore() and stopCore() in any order over the instances
\* startCore() constructs, each with its own child and readiness timer.
NextFacade ==
  \/ StartCore
  \/ StopCore
  \/ \E n \in DOMAIN orchestrators : CoreAnnounces(n)
  \/ \E n \in DOMAIN orchestrators : CoreReadyHandled(n)
  \/ \E n \in DOMAIN orchestrators : CoreErrorHandled(n)
  \/ \E n \in DOMAIN orchestrators : CoreExitHandled(n)
  \/ \E n \in DOMAIN orchestrators : CoreReadyTimeout(n)

SpecFacade == Init /\ [][NextFacade]_vars

\* ------------------------------------------------------------------ properties
\* The step is coreProcess.on('message'): handleMessage(Head(fromCore)) ran.
Dispatched ==
  /\ fromCore # <<>>
  /\ fromCore' = Tail(fromCore)
  /\ UNCHANGED procState

\* The step is the exit handler of the current child.
Exited == coreProcess # NoProc /\ coreProcess' = NoProc

\* The registry and supervisor state a dropped message must leave alone.
registryVars == <<coreProcess, isReady, pendingRequests, streamHandlers, calls, starts, stops>>

IsResponse(msg) == isIPCRequest(msg) /\ msg.type = "process:response"
IsChunk(msg) == isIPCRequest(msg) /\ msg.type = "process:chunk"

\* C1 - Correlation integrity.  A call is settled by a Response only by one whose
\* requestId is the call's own id, and it then holds that Response's payload
\* (the worker echoes the request id as payload); and the step that dispatches a
\* success Response whose requestId names a pending call resolves that call and
\* settles no other, whatever the order in which the Responses arrive.
CorrelationIntegrity ==
  /\ [](\A id \in DOMAIN calls :
          calls[id].outcome \in {"resolved", "failed"} =>
            calls[id].respId = id /\ calls[id].value = id)
  /\ [][Dispatched =>
          LET msg == Head(fromCore) IN
          (IsResponse(msg) /\ msg.success /\ msg.requestId \in pendingRequests)
          => /\ calls'[msg.requestId].outcome = "resolved"
             /\ calls'[msg.requestId].respId = msg.requestId
             /\ \A other \in DOMAIN calls \ {msg.requestId} : calls'[other] = calls[other]]_vars

\* C1 witness: two calls are outstanding and the later one has been resolved by
\* its own Response while the earlier one is still pending.
CorrelationWitness ==
  \E a \in DOMAIN calls, b \in DOMAIN calls :
    /\ a < b
    /\ a \in pendingRequests
    /\ calls[b].outcome = "resolved"
    /\ calls[b].respId = b

\* C2 - At-most-once settlement.  A settled call has left the registry and has
\* been settled exactly once; and the dispatch of a Response or chunk whose
\* requestId names no pending entry changes no registry or supervisor state.
AtMostOnceSettlement ==
  /\ [](\A id \in DOMAIN calls :
          /\ calls[id].settles <= 1
          /\ calls[id].outcome # "pending" => id \notin pendingRequests /\ calls[id].settles = 1)
  /\ [][Dispatched =>
          LET msg == Head(fromCore) IN
          ((IsResponse(msg) \/ IsChunk(msg))
             /\ msg.requestId \in DOMAIN calls /\ calls[msg.requestId].outcome # "pending")
          => UNCHANGED registryVars]_vars

\* C2 witness: a call was settled by a Response and a further Response for its
\* id has been dispatched and dropped.
AtMostOnceWitness ==
  \E id \in dropped :
    id \in DOMAIN calls /\ calls[id].outcome \in {"resolved", "failed"} /\ calls[id].respId = id

\* C3 - Exit cleanup.  The exit handler rejects every call that is in the
\* registry at that moment with the process-exited error, cancels its timer and
\* leaves the registry empty.
ExitCleanup ==
  [][Exited =>
       /\ pendingRequests' = {}
       /\ \A id \in pendingRequests :
            /\ calls'[id].outcome = "exited"
            /\ calls'[id].timer = "cleared"
            /\ calls'[id].settles = 1]_vars

\* C3 witness: the worker has exited while two calls were outstanding.
ExitCleanupWitness ==
  /\ coreProcess = NoProc
  /\ pendingRequests = {}
  /\ \E a \in DOMAIN calls, b \in DOMAIN calls :
       a # b /\ calls[a].outcome = "exited" /\ calls[b].outcome = "exited"

\* C4 - Timeout correctness.  The timer callback rejects its call with the
\* timeout error and removes its registry entry and stream handler; from then on
\* nothing changes that call again: a late Response or chunk is dropped.
TimeoutCorrectness ==
  /\ [][\A id \in DOMAIN calls :
          (calls[id].timer = "armed" /\ calls'[id].timer = "fired")
          => /\ calls'[id].outcome = "timeout"
             /\ calls'[id].settles = 1
             /\ id \notin pendingRequests'
             /\ id \notin streamHandlers']_vars
  /\ [][\A id \in DOMAIN calls :
          calls[id].outcome = "timeout"
          => /\ calls'[id] = calls[id]
             /\ id \notin pendingRequests'
             /\ id \notin streamHandlers']_vars

\* C4 witness: a call timed out and a Response for it arrived afterwards.
TimeoutWitness ==
  \E id \in dropped : id \in DOMAIN calls /\ calls[id].outcome = "timeout"

\* C5 - Stream ordering.  When the worker emits chunks 1..n for a streaming call
\* and then a success Response as its first Response, and that Response resolves
\* the call, onChunk has been invoked with exactly 1..n in that order; and once
\* the call is settled onChunk is not invoked for it again.
StreamOrdering ==
  /\ [](\A id \in DOMAIN calls :
          (calls[id].stream /\ calls[id].outcome = "resolved"
             /\ id \in DOMAIN worker /\ worker[id].first = "ok")
          => calls[id].chunks = [k \in 1..worker[id].pre |-> k])
  /\ [][\A id \in DOMAIN calls :
          calls[id].outcome # "pending" => calls'[id].chunks = calls[id].chunks]_vars

\* C5 witness: a streaming call was resolved after two chunks.
StreamOrderingWitness ==
  \E id \in DOMAIN calls :
    calls[id].stream /\ calls[id].outcome = "resolved" /\ Len(calls[id].chunks) >= 2

\* C6 - start() resolves true only after a readiness handshake: every start()
\* or restart() call that resolved true did so at a moment when isRunning() was
\* true.  The code returns true whenever coreProcess is set, so this fails for a
\* start() issued while an earlier one is still waiting for 'core:ready'.
StartTrueOnlyWhenRunning ==
  \A i \in DOMAIN starts :
    starts[i].result = "true" => starts[i].runningAtResolve

\* C7 - Restart idempotence.  A start() call made while isRunning() is true
\* returns true and forks nothing: the process handle, the readiness flag, the
\* registry and the set of processes are as before; and at no time is there more
\* than one child that has not exited, so a later stop() is followed by one
\* exit event.
StartedBy(i) == Len(starts') = Len(starts) + 1 /\ i = Len(starts') /\ starts'[i].origin = "start"

RestartIdempotence ==
  /\ [][\A i \in {Len(starts) + 1} :
          (StartedBy(i) /\ isRunning)
          => /\ starts'[i].result = "true"
             /\ starts'[i].spawned = NoProc
             /\ UNCHANGED <<coreProcess, isReady, pendingRequests, streamHandlers,
                            procState, calls>>]_vars
  /\ [](Cardinality({p \in Pids : procState[p] \notin {"none", "exited"}}) <= 1)

\* C7 witness: start() was called in Ready state and returned true without a
\* fork, and the stop() that followed has seen the one child exit.
RestartIdempotenceWitness ==
  /\ \E i \in DOMAIN starts :
       /\ starts[i].origin = "start"
       /\ starts[i].result = "true"
       /\ starts[i].spawned = NoProc
       /\ starts[i].runningAtResolve
  /\ \E k \in DOMAIN stops : stops[k].resolved /\ procState[stops[k].proc] = "exited"
  /\ SpawnCount = 1

\* C8 - stop() resolves only once the exit event of its child has fired, so that
\* at that moment no process handle exists and isRunning() is false.  The
\* force-kill timer resolves the promise right after kill('SIGKILL'), before
\* any exit event.
StopResolvesAfterExit ==
  \A k \in DOMAIN stops :
    stops[k].resolved =>
      /\ procState[stops[k].proc] = "exited"
      /\ stops[k].procAtResolve = NoProc
      /\ ~stops[k].runningAtResolve

\* C9 - restart() never reuses the old process: a restart() that resolved true
\* did so with a child forked by that very call, running and ready, and not the
\* child that existed when restart() was called.
RestartUsesNewProcess ==
  \A i \in DOMAIN starts :
    (starts[i].origin = "restart" /\ starts[i].result = "true") =>
      /\ starts[i].spawned # NoProc
      /\ starts[i].procAtResolve = starts[i].spawned
      /\ starts[i].procAtResolve # starts[i].oldProc
      /\ starts[i].runningAtResolve

\* C10 - isRunning() is false from the moment stop() is called for the current
\* child until that child has exited (the Stopping state).
StopRequested ==
  \E k \in DOMAIN stops : stops[k].proc = coreProcess /\ procState[stops[k].proc] # "exited"

NotRunningWhileStopping == StopRequested => ~isRunning

\* C11 - One worker at a time.  A step in which fork() creates a child is taken
\* only while the supervisor holds no process handle and every child created
\* before has been seen to exit; the new child becomes the handle.  This holds
\* for every interleaving of start(), stop(), restart(), timers and the exit
\* and error events.
SpawnsOnlyAfterExit ==
  [][\A p \in Pids :
       (procState[p] = "none" /\ procState'[p] # "none")
       => /\ coreProcess = NoProc
          /\ coreProcess' = p
          /\ \A q \in Pids \ {p} : procState[q] \in {"none", "exited"}]_vars

\* C11 witness: a restart() forked a second child after the first one, which it
\* had asked to stop, was seen to exit.
SpawnsOnlyAfterExitWitness ==
  \E i \in DOMAIN starts, k \in DOMAIN stops :
    /\ starts[i].origin = "restart"
    /\ stops[k].restart = i
    /\ procState[stops[k].proc] = "exited"
    /\ starts[i].spawned # NoProc
    /\ starts[i].spawned # stops[k].proc
    /\ Running(starts[i].spawned)

\* C12 - Readiness timeout.  When the readyTimeout callback of a start() call
\* runs and no 'core:ready' has been received, that call has resolved false and
\* stop() has been called on the process handle: the shutdown request is sent
\* over a connected channel and the SIGTERM and SIGKILL timers are armed.  A
\* running child stopped in this way is eventually seen to exit, and the
\* supervisor is then without a process handle.
TimedOut(pid) ==
  \E i \in DOMAIN starts : starts[i].timedOut = pid /\ Running(pid)

ReadinessTimeoutStops ==
  /\ [][\A i \in DOMAIN starts :
          (starts[i].timer = "armed" /\ starts'[i].timer = "fired" /\ ~isReady)
          => /\ starts'[i].result = "false"
             /\ coreProcess # NoProc =>
                  /\ Len(stops') = Len(stops) + 1
                  /\ stops'[Len(stops')].proc = coreProcess
                  /\ stops'[Len(stops')].sigterm = "armed"
                  /\ stops'[Len(stops')].forceKill = "armed"
                  /\ connected =>
                       signals'[coreProcess] = Append(signals[coreProcess], "core:shutdown")]_vars
  /\ \A pid \in Pids :
       TimedOut(pid) ~> (procState[pid] = "exited" /\ coreProcess = NoProc)

\* C12 witness: a child never announced itself, the readiness timer stopped it
\* with a shutdown request, SIGTERM and SIGKILL, and it has exited.
ReadinessTimeoutWitness ==
  \E i \in DOMAIN starts :
    /\ starts[i].timedOut # NoProc
    /\ starts[i].timedOut = starts[i].spawned
    /\ starts[i].result = "false"
    /\ signals[starts[i].timedOut] = <<"core:shutdown", "SIGTERM", "SIGKILL">>
    /\ procState[starts[i].timedOut] = "exited"
    /\ coreProcess = NoProc

\* C13 - start() reports failures as values and events, never as exceptions.
\* Every start() call, and the start() of every restart(), eventually resolves
\* to a boolean; a call whose fork() threw, or whose child emitted 'error', has
\* resolved false; a readiness timer that has fired leaves its call resolved;
\* the 'error' handler fires onCoreError and the 'exit' handler fires onCoreExit
\* for their child.
StartNeverThrows ==
  /\ \A i \in 1..MaxStarts :
       (i \in DOMAIN starts) ~> (i \in DOMAIN starts /\ starts[i].result \in {"true", "false"})
  /\ [](\A i \in DOMAIN starts :
          /\ (starts[i].phase = "done" /\ starts[i].spawned = NoProc
                 /\ starts[i].procAtResolve = NoProc)
               => starts[i].result = "false"
          /\ (starts[i].spawned # NoProc /\ procState[starts[i].spawned] = "errored")
               => starts[i].result = "false"
          /\ starts[i].timer = "fired" => starts[i].result \in {"true", "false"}
          /\ starts[i].timedOut # NoProc => starts[i].result = "false")
  /\ [][\A pid \in Pids :
          /\ (procState[pid] = "failed" /\ procState'[pid] = "errored")
               => events'[pid] = Append(events[pid], "error")
          /\ (procState[pid] # "exited" /\ procState'[pid] = "exited")
               => events'[pid] = Append(events[pid], "exit")]_vars

\* C13 witness: one start() resolved false after the 'error' event of its
\* child, and a later one resolved false on its readiness timer, its child
\* having exited with the exit event fired.
StartNeverThrowsWitness ==
  \E i \in DOMAIN starts, j \in DOMAIN starts :
    /\ i < j
    /\ starts[i].spawned # NoProc
    /\ events[starts[i].spawned] = <<"error", "exit">>
    /\ starts[i].result = "false"
    /\ starts[j].timedOut # NoProc
    /\ starts[j].result = "false"
    /\ events[starts[j].timedOut] = <<"exit">>

\* C14 - stop() escalation order.  The step in which stop() finds a process
\* sends 'core:shutdown' at once if the channel is connected and arms both
\* timers without signalling; a stop() call issues SIGKILL only after its
\* SIGTERM, and only while the exit of its process has not been observed: the
\* exit handler leaves no force-kill timer armed.  So the signals a child
\* receives have a shutdown request before the first SIGTERM and a SIGTERM
\* before the first SIGKILL.
StopCalled == Len(stops') = Len(stops) + 1

StopEscalation ==
  /\ [][StopCalled =>
          LET k == Len(stops')
              pid == stops'[k].proc
          IN  /\ pid = coreProcess
              /\ stops'[k].sigterm = "armed"
              /\ stops'[k].forceKill = "armed"
              /\ signals'[pid] = IF connected THEN Append(signals[pid], "core:shutdown")
                                  ELSE signals[pid]]_vars
  /\ [][\A k \in DOMAIN stops :
          (stops[k].forceKill = "armed" /\ stops'[k].forceKill = "fired")
          => /\ stops[k].sigterm = "fired"
             /\ procState[stops[k].proc] # "exited"
             /\ Running(stops[k].proc)
                  => signals'[stops[k].proc] = Append(signals[stops[k].proc], "SIGKILL")]_vars
  /\ [](\A k \in DOMAIN stops :
          procState[stops[k].proc] = "exited" => stops[k].forceKill # "armed")
  /\ [](\A pid \in Pids : \A n \in DOMAIN signals[pid] :
          /\ signals[pid][n] = "SIGKILL"
               => \E m \in 1..(n - 1) : signals[pid][m] = "SIGTERM"
          /\ signals[pid][n] = "SIGTERM"
               => \E m \in 1..(n - 1) : signals[pid][m] = "core:shutdown")

\* C14 witness: stop() was called on a ready worker that ignored the shutdown
\* request and SIGTERM, was sent SIGKILL and has then exited.
StopEscalationWitness ==
  \E k \in DOMAIN stops, i \in DOMAIN starts :
    /\ starts[i].result = "true"
    /\ starts[i].spawned = stops[k].proc
    /\ starts[i].timedOut = NoProc
    /\ stops[k].restart = 0
    /\ stops[k].forceKill = "fired"
    /\ signals[stops[k].proc] = <<"core:shutdown", "SIGTERM", "SIGKILL">>
    /\ procState[stops[k].proc] = "exited"

\* C15 - Process-level cancellation.  When the promise of a stop() call
\* resolves, on the exit path or on the force-kill path, no call that was in
\* the registry when stop() was called is still in it.  The force-kill timer
\* resolves the promise before any exit event, and only the exit handler
\* rejects the registry's calls.
StopRejectsOutstanding ==
  \A k \in DOMAIN stops :
    stops[k].resolved => stops[k].pendingAtCall \cap stops[k].pendingAtResolve = {}

\* C16 - Every sendRequest / sendStreamingRequest future settles.  A call in
\* the registry has its timer armed, and every call made is eventually
\* resolved by its Response or rejected by a failure Response, by its timer or
\* by the worker's exit, and is then out of the registry.
EverySendSettles ==
  /\ [](\A id \in pendingRequests : calls[id].timer = "armed")
  /\ \A id \in 1..MaxCalls :
       (id \in DOMAIN calls)
       ~> /\ id \in DOMAIN calls
          /\ calls[id].outcome \in {"resolved", "failed", "timeout", "exited"}
          /\ id \notin pendingRequests

\* C16 witness: no call is left in the registry, one having been settled by
\* its timer after the worker's failure Response was dropped for lack of a
\* payload field, another by its Response.
EverySendSettlesWitness ==
  /\ pendingRequests = {}
  /\ \E a \in DOMAIN calls, b \in DOMAIN calls :
       /\ calls[a].outcome = "timeout"
       /\ a \in DOMAIN worker /\ worker[a].first = "fail"
       /\ calls[b].outcome = "resolved"

\* C17 - A failure Response that matches a pending call rejects it with an
\* error carrying the Response's error code and its error message.  The code
\* builds the rejection from the message alone.
FailureCarriesCodeAndMessage ==
  \A id \in DOMAIN calls :
    calls[id].outcome = "failed" =>
      /\ calls[id].error.message = calls[id].respError.message
      /\ calls[id].error.code = calls[id].respError.code

\* The step is a proxy handler passing messages to sendMessage for request rid.
ProxySent(rid) == rid \in DOMAIN llm /\ llm'[rid].sent # llm[rid].sent

\* The messages about request rid written to the channel of child pid.
Written(pid, rid) == SelectSeq(toCore[pid], LAMBDA m : m.requestId = rid)

\* C18 - Capability proxy, non-streaming.  An 'llm:request' handler never
\* sends a chunk; when a model was found and the invocation succeeded it has
\* sent exactly one message, the success Response for the request's id whose
\* content is the backend's fragments concatenated in order; it sends nothing
\* afterwards, and the Response is written to the channel of the connected
\* child.
ProxyNonStreaming ==
  /\ [](\A rid \in DOMAIN llm :
          ~llm[rid].stream =>
            /\ \A n \in DOMAIN llm[rid].sent : llm[rid].sent[n].type = "llm:response"
            /\ (llm[rid].phase = "done" /\ llm[rid].backend = "ok")
                 => llm[rid].sent = <<LLMResponseMessage(rid, TRUE, llm[rid].frags, "none")>>)
  /\ [][\A rid \in DOMAIN llm :
          (~llm[rid].stream /\ ProxySent(rid))
          => /\ llm[rid].phase # "done"
             /\ llm'[rid].phase = "done"
             /\ (coreProcess # NoProc /\ connected)
                  => toCore'[coreProcess] = toCore[coreProcess] \o llm'[rid].sent]_vars

\* C18 witness: a non-streaming request was served from two fragments and its
\* Response was written to the child that asked.
ProxyNonStreamingWitness ==
  \E rid \in DOMAIN llm :
    /\ ~llm[rid].stream
    /\ llm[rid].phase = "done"
    /\ llm[rid].backend = "ok"
    /\ Len(llm[rid].frags) = 2
    /\ llm[rid].proc # NoProc
    /\ Written(llm[rid].proc, rid) = llm[rid].sent

\* C19 - Capability proxy, streaming.  An 'llm:stream' handler has sent one
\* 'llm:chunk' per fragment the backend has yielded, in fragment order, each
\* with done = false and the request's id; once it has finished these are
\* followed by exactly one Response for that id, the success Response with the
\* whole content when the backend succeeded, and nothing is sent afterwards.
\* On every child's channel no chunk for the id follows its Response.
ProxyStreaming ==
  /\ [](\A rid \in DOMAIN llm :
          llm[rid].stream =>
            LET sent == llm[rid].sent
                frags == llm[rid].frags
            IN  /\ Len(sent) = Len(frags) + (IF llm[rid].phase = "done" THEN 1 ELSE 0)
                /\ \A k \in DOMAIN frags :
                     /\ sent[k].type = "llm:chunk"
                     /\ sent[k].requestId = rid
                     /\ sent[k].content = <<frags[k]>>
                     /\ ~sent[k].done
                /\ llm[rid].phase = "done" =>
                     /\ sent[Len(sent)].type = "llm:response"
                     /\ sent[Len(sent)].requestId = rid
                     /\ llm[rid].backend = "ok" =>
                          /\ sent[Len(sent)].success
                          /\ sent[Len(sent)].content = frags)
  /\ [][\A rid \in DOMAIN llm :
          (llm[rid].stream /\ llm[rid].phase = "done") => llm'[rid].sent = llm[rid].sent]_vars
  /\ [](\A pid \in Pids : \A rid \in DOMAIN llm :
          \A n \in DOMAIN Written(pid, rid) :
            Written(pid, rid)[n].type = "llm:response" => n = Len(Written(pid, rid)))

\* C19 witness: a streaming request was served with two chunks and then the
\* success Response, all written to the child that asked.
ProxyStreamingWitness ==
  \E rid \in DOMAIN llm :
    /\ llm[rid].stream
    /\ llm[rid].phase = "done"
    /\ llm[rid].backend = "ok"
    /\ Len(llm[rid].sent) = 3
    /\ llm[rid].proc # NoProc
    /\ Written(llm[rid].proc, rid) = llm[rid].sent

\* C20 - Capability proxy failure.  When an await of a handler throws, before
\* or during streaming, the handler finishes having sent exactly one Response
\* for the request's id, as its last message, with success = false and an
\* error code; no message it sends is a chunk with done = true.
ProxyFailure ==
  \A rid \in DOMAIN llm :
    /\ \A n \in DOMAIN llm[rid].sent : ~llm[rid].sent[n].done
    /\ llm[rid].backend = "failed" =>
         LET sent == llm[rid].sent IN
         /\ llm[rid].phase = "done"
         /\ sent # <<>>
         /\ \A n \in DOMAIN sent : sent[n].type = "llm:response" <=> n = Len(sent)
         /\ sent[Len(sent)].requestId = rid
         /\ ~sent[Len(sent)].success
         /\ sent[Len(sent)].code # "none"

\* C20 witness: the backend failed after one fragment of a streaming request
\* had been relayed, and before any fragment of a non-streaming one.
ProxyFailureWitness ==
  \E a \in DOMAIN llm, b \in DOMAIN llm :
    /\ llm[a].stream /\ llm[a].backend = "failed" /\ Len(llm[a].sent) = 2
    /\ ~llm[b].stream /\ llm[b].backend = "failed" /\ llm[b].frags = <<>>

\* C21 - Capability fallback chain.  A handler that selected while the
\* preferred selector matched no backend and another candidate matched one has
\* taken a backend that matched, has recorded the selector it used, and, unless
\* an await threw, finishes with a success Response.  handleLLMStreamRequest
\* tries its one selector only and answers NO_MODEL.
FallbackChain ==
  \A rid \in DOMAIN llm :
    ("preferred" \notin llm[rid].avail /\ llm[rid].avail # {}) =>
      /\ llm[rid].selector \in llm[rid].avail
      /\ llm[rid].logged = llm[rid].selector
      /\ (llm[rid].phase = "done" /\ llm[rid].backend # "failed")
           => /\ llm[rid].sent # <<>>
              /\ llm[rid].sent[Len(llm[rid].sent)].type = "llm:response"
              /\ llm[rid].sent[Len(llm[rid].sent)].success

\* C22 - No backend available.  A handler whose selection found that no
\* candidate selector matches a backend has finished having sent exactly one
\* message, the Response for the request's id with success = false and the
\* code NO_MODEL; it has invoked no backend, so no fragment and no chunk
\* exists, and it does nothing afterwards.
NoBackend ==
  /\ [](\A rid \in DOMAIN llm :
          (llm[rid].phase # "select" /\ llm[rid].avail = {} /\ llm[rid].backend # "failed")
          => /\ llm[rid].phase = "done"
             /\ llm[rid].backend = "none"
             /\ llm[rid].frags = <<>>
             /\ Len(llm[rid].sent) = 1
             /\ llm[rid].sent[1].type = "llm:response"
             /\ llm[rid].sent[1].requestId = rid
             /\ ~llm[rid].sent[1].success
             /\ llm[rid].sent[1].code = "NO_MODEL")
  /\ [][\A rid \in DOMAIN llm :
          llm[rid].backend = "none" => llm'[rid] = llm[rid]]_vars

\* C22 witness: a streaming and a non-streaming request were both answered
\* NO_MODEL, no selector matching, and the answers were written to the child.
NoBackendWitness ==
  \E a \in DOMAIN llm, b \in DOMAIN llm :
    /\ llm[a].stream /\ llm[a].backend = "none" /\ llm[a].avail = {}
    /\ ~llm[b].stream /\ llm[b].backend = "none" /\ llm[b].avail = {}
    /\ llm[a].proc # NoProc
    /\ Written(llm[a].proc, a) = llm[a].sent

\* C23 - Stream sink lifetime.  A sink is registered only for a call that is
\* in the registry: a streaming call that has been settled, by its Response
\* (success or failure), by its timer or by the worker's exit, has no sink; and
\* the dispatch of a chunk addressed to a settled call invokes no onChunk and
\* changes no call.
StreamSinkLifetime ==
  /\ [](streamHandlers \subseteq pendingRequests)
  /\ [](\A id \in DOMAIN calls : calls[id].outcome # "pending" => id \notin streamHandlers)
  /\ [][Dispatched =>
          LET msg == Head(fromCore) IN
          (IsChunk(msg) /\ msg.requestId \in DOMAIN calls
             /\ calls[msg.requestId].outcome # "pending")
          => calls' = calls]_vars

\* C23 witness: one streaming call was rejected by a failure Response and a
\* chunk the worker sent for it afterwards has been dispatched without reaching
\* onChunk; another streaming call was settled by its timer.
StreamSinkLifetimeWitness ==
  \E a \in DOMAIN calls, b \in DOMAIN calls :
    /\ calls[a].stream /\ calls[a].outcome = "failed"
    /\ a \in DOMAIN worker /\ worker[a].chunks = 1
    /\ calls[a].chunks = <<>>
    /\ fromCore = <<>>
    /\ coreProcess # NoProc
    /\ calls[b].stream /\ calls[b].outcome = "timeout"
    /\ streamHandlers = {}

\* C24 - A chunk leaves its call pending.  A call for which the worker has
\* sent nothing but StreamChunks, of whatever '<domain>:chunk' kind, has not
\* been settled by a message: it is pending, or was settled by its timer or
\* the worker's exit.  The dispatch knows 'process:chunk' only; a chunk of
\* another domain reaches the Response branch and rejects the call.
ChunksNeverSettle ==
  \A id \in DOMAIN calls :
    (id \in DOMAIN worker /\ worker[id].first = "none")
    => calls[id].outcome \notin {"resolved", "failed"}

\* C25 - Every Response settles its call.  Once the first Response the worker
\* sent for a call, a success with its payload or a failure with its error and
\* with or without a payload field, has been dispatched, the call is no longer
\* pending.  handleMessage discards every message without a 'payload' field,
\* so a failure Response that carries only its error leaves the call pending.
ResponseSettles ==
  \A id \in DOMAIN calls :
    (/\ id \in DOMAIN worker
     /\ worker[id].first \in {"ok", "fail"}
     /\ coreProcess # NoProc
     /\ fromCore = <<>>)
    => calls[id].outcome # "pending"

\* The StreamChunk kinds of the protocol.
IsStreamChunk(msg) == isIPCRequest(msg) /\ msg.type \in {"process:chunk", "agents:chunk"}

\* C26 - Unmatched messages are dropped silently.  The dispatch of a Response
\* or StreamChunk whose requestId has no entry in the registry (the call was
\* resolved, timed out, rejected at exit, or the id is unknown) settles no
\* call, invokes no sink and leaves the registry, the stream sinks, the
\* readiness flag, the process handle and the start() and stop() calls as
\* they were.
UnmatchedDropped ==
  [][Dispatched =>
       LET msg == Head(fromCore) IN
       ((IsResponse(msg) \/ IsStreamChunk(msg)) /\ msg.requestId \notin pendingRequests)
       => UNCHANGED registryVars]_vars

\* C26 witness: a Response for an id the host never issued and a Response for
\* a call that had timed out have both been dispatched while another call is
\* still pending.
UnmatchedDroppedWitness ==
  /\ UnknownId \in dropped
  /\ \E a \in dropped : a \in DOMAIN calls /\ calls[a].outcome = "timeout"
  /\ pendingRequests # {}
  /\ fromCore = <<>>

\* C27 - Protocol violation.  The dispatch of a message that is not a valid
\* envelope (it lacks 'type', 'id' or 'timestamp') changes nothing: not the registry, the sinks, the readiness flag,
\* the process handle, the channel, nor any start(), stop() or capability
\* call; and a Response that follows a malformed answer to the same call is
\* dispatched as usual: it settles the call and removes it from the registry.
ProtocolViolationDropped ==
  /\ [][Dispatched =>
          (~Head(fromCore).envelope
           => UNCHANGED <<registryVars, connected, messageCounter, dropped, llm>>)]_vars
  /\ [][Dispatched =>
          LET msg == Head(fromCore) IN
          (/\ IsResponse(msg)
           /\ msg.requestId \in pendingRequests
           /\ msg.requestId \in DOMAIN worker
           /\ worker[msg.requestId].first = "malformed")
          => /\ calls'[msg.requestId].outcome = (IF msg.success THEN "resolved" ELSE "failed")
             /\ msg.requestId \notin pendingRequests']_vars

\* C27 witness: the worker's first answer to a call was malformed and was
\* dropped, and the Response it sent afterwards has resolved the call.
ProtocolViolationWitness ==
  \E id \in DOMAIN calls :
    /\ id \in DOMAIN worker
    /\ worker[id].first = "malformed"
    /\ calls[id].outcome = "resolved"
    /\ calls[id].respId = id

\* C28 - Exactly-once settlement across sources.  Every call is settled at
\* most once; a call settled by a Response or by the worker's exit has its
\* timer cancelled, and a timer has fired exactly for the calls it rejected; the
\* timer callback runs only for a call that is still pending and in the
\* registry.
ExactlyOnceAcrossSources ==
  /\ [](\A id \in DOMAIN calls :
          /\ calls[id].settles = (IF calls[id].outcome = "pending" THEN 0 ELSE 1)
          /\ calls[id].outcome \in {"resolved", "failed", "exited"} => calls[id].timer = "cleared"
          /\ calls[id].timer = "fired" <=> calls[id].outcome = "timeout")
  /\ [][\A id \in DOMAIN calls :
          (calls[id].timer = "armed" /\ calls'[id].timer = "fired")
          => calls[id].outcome = "pending" /\ id \in pendingRequests]_vars

\* C28 witness: one call was resolved by its Response and another rejected by
\* the worker's exit, both with their timers cancelled, and a third source
\* then found nothing to settle: the Response for the first arrived twice.
ExactlyOnceWitness ==
  \E a \in DOMAIN calls, b \in DOMAIN calls :
    /\ calls[a].outcome = "resolved" /\ calls[a].timer = "cleared"
    /\ a \in dropped
    /\ calls[b].outcome = "exited" /\ calls[b].timer = "cleared"

\* C29 - Registration is atomic with transmission.  The calls
\* sendRequest / sendStreamingRequest have registered are exactly the requests
\* written to a worker's channel.  Both register first and then call
\* sendMessage, which writes nothing when the channel is not connected.
RegisteredIffTransmitted == DOMAIN calls = DOMAIN worker

\* C30 - Message ids are unique.  No two messages the capability proxy has
\* passed to sendMessage, Responses and chunks of all its calls and across
\* worker restarts, carry the same id.  (Request and Response ids take a
\* fresh value of the one counter each.)  A chunk's id is the clock value alone,
\* so two chunks built within the same millisecond share it.
UniqueIds ==
  \A a \in DOMAIN llm, b \in DOMAIN llm :
    \A m \in DOMAIN llm[a].ids, n \in DOMAIN llm[b].ids :
      (a # b \/ m # n) => llm[a].ids[m] # llm[b].ids[n]

\* C31 - Only 'core:ready' satisfies the readiness wait.  A step in which the
\* readiness flag becomes true, or in which a start() call that was waiting
\* for the handshake resolves true, is the dispatch of an envelope with a
\* payload whose type is 'core:ready'; and the dispatch of any other message
\* (a Response, a chunk of either domain, a message that is no envelope, a
\* message for an unknown id) leaves the readiness flag as it was and resolves
\* no waiting start() true.
BecomesReady == ~isReady /\ isReady'

WaitSatisfied ==
  \E i \in DOMAIN starts :
    /\ starts[i].phase = "waiting"
    /\ starts[i].result = "none"
    /\ starts'[i].result = "true"

SpawnFailed(pid) ==
  /\ procState[pid] = "errored"
  /\ \E j \in DOMAIN starts : starts[j].spawned = pid /\ starts[j].result = "false"

RetryAfterSpawnFailure ==
  /\ [](\A pid \in Pids : SpawnFailed(pid) => coreProcess # pid)
  /\ [][\A i \in {Len(starts) + 1} :
          (StartedBy(i) /\ \E pid \in Pids : SpawnFailed(pid))
          => ~(starts'[i].result = "true" /\ starts'[i].spawned = NoProc)]_vars

\* C37 - A readiness timer belongs to the worker of its own start() call.  The
\* process a readyTimeout callback calls stop() on is the child that the
\* start() call which armed the timer forked, never a child forked by a later
\* start() call whose own readiness period is still running.
StaleReadinessTimer ==
  \A i \in DOMAIN starts :
    starts[i].timedOut # NoProc => starts[i].timedOut = starts[i].spawned

\* C38 - Capability answers go to the requesting worker only.  Every chunk and
\* Response about a capability request that was written to the channel of a
\* child was written to the child that issued the request; a child forked
\* after the requester exited receives nothing carrying the old request id.
AnswersOnlyToRequester ==
  \A pid \in Pids, rid \in DOMAIN llm :
    Written(pid, rid) # <<>> => pid = llm[rid].proc

\* C34 - Every stream sink has a Pending Call.  In every state between two
\* callbacks each request id with an entry in the stream-sink table has an
\* entry in the pending-request table, and it is the id of a streaming call
\* that has not been settled: a sink never outlives its Pending Call, whether
\* the call ended by a Response, a timeout or the exit of the worker.
SinkHasPendingCall ==
  \A id \in streamHandlers :
    /\ id \in pendingRequests
    /\ id \in DOMAIN calls
    /\ calls[id].stream
    /\ calls[id].outcome = "pending"

\* A streaming call that had received a chunk was rejected by the exit of the
\* worker, and no sink is left for it.
SinkHasPendingCallWitness ==
  \E id \in DOMAIN calls :
    /\ calls[id].stream
    /\ calls[id].outcome = "exited"
    /\ calls[id].chunks # <<>>
    /\ id \notin streamHandlers
    /\ coreProcess = NoProc

\* C35 - No process handle, no Pending Call.  In every state between two
\* callbacks a non-empty pending-request table implies that the supervisor
\* holds a process handle and that the readiness flag is true; so whenever
\* there is no handle the Registry is empty.
PendingImpliesRunning ==
  pendingRequests # {} => (coreProcess # NoProc /\ isReady)

\* Two calls were pending when the worker exited; the handle is gone and the
\* registry is empty.
PendingImpliesRunningWitness ==
  /\ coreProcess = NoProc
  /\ pendingRequests = {}
  /\ Cardinality({id \in DOMAIN calls : calls[id].outcome = "exited"}) = 2

\* C32 - stop() always terminates.  A stop() call that finds no process (made
\* by restart() or by a readiness timer) makes no stop record, sends no
\* message and no signal, and a restart() awaiting it continues at once.  A
\* stop() call that finds a process eventually resolves, and the step that
\* resolves it is the exit event of that process or the force-kill callback,
\* so it resolves even when the process never exits.
RestartCalled(i) ==
  Len(starts') = Len(starts) + 1 /\ i = Len(starts') /\ starts'[i].origin = "restart"

ReadinessExpired ==
  \E i \in DOMAIN starts :
    starts[i].timer = "armed" /\ starts'[i].timer = "fired" /\ ~isReady

StopTerminates ==
  /\ \A k \in 1..MaxStops :
       (k \in DOMAIN stops) ~> (k \in DOMAIN stops /\ stops[k].resolved)
  /\ [][\A k \in DOMAIN stops :
          (~stops[k].resolved /\ stops'[k].resolved)
          => \/ procState[stops[k].proc] # "exited" /\ procState'[stops[k].proc] = "exited"
             \/ stops[k].forceKill = "armed" /\ stops'[k].forceKill = "fired"]_vars
  /\ [][\A i \in {Len(starts) + 1} :
          (coreProcess = NoProc /\ (RestartCalled(i) \/ ReadinessExpired))
          => /\ Len(stops') = Len(stops)
             /\ UNCHANGED <<signals, messageCounter, toCore>>
             /\ RestartCalled(i) => micro' = Append(micro, i)]_vars

\* A stop() call on a child that never emitted 'exit' was resolved by the
\* force-kill callback.
StopTerminatesWitness ==
  \E k \in DOMAIN stops :
    /\ stops[k].resolved
    /\ stops[k].forceKill = "fired"
    /\ procState[stops[k].proc] = "errored"
    /\ coreProcess = stops[k].proc

\* C36 - Requests are refused while the core is not running.  A call is
\* registered only by a step taken while isRunning() is true; and the step in
\* which sendRequest or sendStreamingRequest throws 'Core is not running' is
\* taken while isRunning() is false and leaves the pending-request table, the
\* stream sinks, the calls and their timers, the message counter and what was
\* transmitted to the worker unchanged.
Refusal == refused' # refused

NotRunningRefused ==
  /\ [][(DOMAIN calls' # DOMAIN calls \/ pendingRequests' \ pendingRequests # {})
          => (coreProcess # NoProc /\ isReady)]_vars
  /\ [][Refusal
          => /\ coreProcess = NoProc \/ ~isReady
             /\ UNCHANGED <<pendingRequests, streamHandlers, calls, messageCounter,
                            inbox, worker, signals, toCore>>]_vars

\* Both request functions have thrown while a worker was forked and had not
\* announced itself, and nothing was registered.
NotRunningRefusedWitness ==
  /\ refused = BOOLEAN
  /\ coreProcess # NoProc
  /\ ~isReady
  /\ calls = <<>>
  /\ pendingRequests = {}
  /\ messageCounter = 0

\* C40 - processStream delivers the text exactly once.  For every processStream
\* call whose worker streamed every fragment of its text as chunks and then
\* returned a success Response whose payload content is the full text, the
\* concatenation of the content values passed to onChunk is that full text.
StreamedInFull(id) ==
  /\ calls[id].stream
  /\ calls[id].outcome = "resolved"
  /\ calls[id].value = FullText
  /\ calls[id].chunks = FullText

DeliveredExactlyOnce ==
  \A id \in DOMAIN calls :
    StreamedInFull(id) => processStream(calls[id]) = FullText

\* C39 - startCore() keeps at most one worker alive.  Among the children of
\* all the LocalOrchestrator instances startCore() has constructed at most one
\* is a running process; in particular the field is never replaced by a new,
\* started instance while the child of the previous one still runs.
WorkerAlive(n) == orchestrators[n].child \in {"alive", "announced"}

AtMostOneWorker ==
  Cardinality({n \in DOMAIN orchestrators : WorkerAlive(n)}) <= 1
====
